---------------------------- MODULE Spec2Model ----------------------------
(***************************************************************************)
(* Model of packages/api/src/jobs/update_just_read_feed.ts: the candidate  *)
(* selector, the ranker, the mixer and the Redis-backed feed store.        *)
(*                                                                         *)
(* Each component has its own specification over the shared variables:     *)
(*   SpecSelect  selectCandidates                                          *)
(*   SpecRank    rankCandidates                                            *)
(*   SpecMix     mixFeedItems                                              *)
(*   SpecStore   appendSectionsToFeed / getJustReadFeedSections, one call  *)
(*               at a time                                                 *)
(*   SpecPipe    the same store with the commands of concurrent callers    *)
(*               interleaved at the Redis server                           *)
(*   SpecJob     updateJustReadFeed, one run with its collaborators        *)
(*   SpecUsers   the stores of two users, their commands interleaved       *)
(***************************************************************************)
EXTENDS Integers, Sequences, FiniteSets, TLC

VARIABLES
    \* selectCandidates
    selPc,          \* position in selectCandidates
    libraryItems,   \* result of searchLibraryItems
    subscriptions,  \* result of findSubscriptionsByNames
    publicItems,    \* result of findUnseenPublicItems
    selected,       \* the returned candidates
    \* rankCandidates
    rankPc,         \* position in rankCandidates
    rankInput,      \* the candidates array as passed in
    rankRequests,   \* the key sets of the scoring requests issued so far
    newScores,      \* the scorer's response
    rankOutput,     \* the returned array
    \* mixFeedItems
    mixPc,          \* position in mixFeedItems
    mixInput,       \* rankedFeedItems
    longItems,      \* items with wordCount >= median
    shortItems,     \* items with wordCount < median
    mixPos,         \* number of items distributeItems has handled so far
    batches,        \* the batches
    added,          \* per batch and position: the `added` flag of the item put there
    sections,       \* the returned sections
    \* the feed store of one user
    store,          \* the sorted set at just-read-feed:<userId>
    clock,          \* Date.now()
    op,             \* the last call on the store, with what it returned
    everAppended,   \* history: the unexpired members appended so far, each
                    \* with the score of its last append
    \* concurrent callers of the store
    pipelines,      \* per appending job: its commands the server has not run yet
    observed,       \* what the last retrieval saw
    \* one run of updateJustReadFeed
    jobPc,          \* position in updateJustReadFeed
    jobUser,        \* result of findActiveUser
    jobCandidates,  \* number of candidates at hand
    jobLog,         \* the calls to collaborators made so far, in order
    jobFailed,      \* the collaborator calls that failed
    \* the feed stores of several users
    redis,          \* the sorted set at each key
    solo            \* history: per user, the sorted set its own commands make

selVars == <<selPc, libraryItems, subscriptions, publicItems, selected>>
rankVars == <<rankPc, rankInput, rankRequests, newScores, rankOutput>>

mixVars == <<mixPc, mixInput, longItems, shortItems, mixPos, batches, added, sections>>

storeVars == <<store, clock, op, everAppended>>

pipeVars == <<pipelines, observed>>

jobVars == <<jobPc, jobUser, jobCandidates, jobLog, jobFailed>>

userVars == <<redis, solo>>

vars == <<selVars, rankVars, mixVars, storeVars, pipeVars, jobVars, userVars>>

\* what a component's steps leave alone
notSel == <<rankVars, mixVars, storeVars, pipeVars, jobVars, userVars>>
notRank == <<selVars, mixVars, storeVars, pipeVars, jobVars, userVars>>
notMix == <<selVars, rankVars, storeVars, pipeVars, jobVars, userVars>>
notStore == <<selVars, rankVars, mixVars, pipeVars, jobVars, userVars>>
notPipe == <<selVars, rankVars, mixVars, op, everAppended, jobVars, userVars>>
notUsers == <<selVars, rankVars, mixVars, storeVars, jobVars>>
notJob == <<selVars, rankVars, mixVars, op, everAppended, pipeVars, userVars>>

\* JavaScript's undefined, for a string-valued field
None == "undefined"

\* An optional number (score?: number): <<>> is undefined, <<x>> is x
NoScore == <<>>
Score(x) == <<x>>

\* An absent subscription; the code only reads subscription?.name and
\* subscription?.type, both undefined then
NoSubscription == [name |-> None, type |-> None]

Min(a, b) == IF a <= b THEN a ELSE b
Max(a, b) == IF a >= b THEN a ELSE b

\* Array.prototype.slice(0, n) for n >= 0
Slice(s, n) == SubSeq(s, 1, Min(Len(s), n))

Range(s) == {s[i] : i \in 1..Len(s)}

(***************************************************************************)
(* Candidate Selector                                                      *)
(***************************************************************************)

\* size: 100 of the library search, limit: 100 of the public inventory query
LIBRARY_SEARCH_SIZE == 100
PUBLIC_ITEMS_LIMIT == 100
\* .slice(0, 70) and .slice(0, 100 - privateCandidatesSize)
PRIVATE_LIMIT == 70
TOTAL_LIMIT == 100

\* The subscriptions the user may have; a library item's subscription field
\* holds a subscription's name or its url.
KnownSubscriptions ==
    { [name |-> "feedA", url |-> "urlA", type |-> "RSS"],
      [name |-> "feedB", url |-> "urlB", type |-> "NEWSLETTER"] }

\* The i-th row of the library search: ids are unique, every third item has
\* no subscription, the others name one by name or by url.
LibraryItemAt(i) ==
    [ id |-> i,
      title |-> i,
      author |-> IF i % 2 = 0 THEN "" ELSE "ann",
      siteName |-> IF i % 4 = 0 THEN "" ELSE "siteA",
      wordCount |-> 100 + i,
      score |-> IF i % 2 = 0 THEN NoScore ELSE Score(i % 5),
      subscription |-> CASE i % 3 = 0 -> None
                         [] i % 3 = 1 -> "feedA"
                         [] i % 6 = 2 -> "feedB"
                         [] OTHER -> "urlB" ]

\* The j-th row of the public inventory; ids are disjoint from library ids.
PublicItemAt(j) ==
    [ id |-> 1000 + j,
      title |-> 1000 + j,
      author |-> IF j % 2 = 0 THEN None ELSE "bob",
      wordCount |-> 200 + j,
      source |-> [name |-> "publicFeed", type |-> "RSS"] ]

\* subscriptions.find(s => s.name === item.subscription || s.url === item.subscription)
FindSubscription(item, subs) ==
    LET hits == {s \in subs : s.name = item.subscription \/ s.url = item.subscription}
    IN  IF hits = {} THEN NoSubscription
        ELSE LET s == CHOOSE s \in hits : TRUE IN [name |-> s.name, type |-> s.type]

\* x || undefined for strings
OrUndefined(x) == IF x = "" \/ x = None THEN None ELSE x

libraryItemToCandidate(item, subs) ==
    [ id |-> item.id,
      type |-> "library_item",
      title |-> item.title,
      author |-> OrUndefined(item.author),
      siteName |-> OrUndefined(item.siteName),
      wordCount |-> item.wordCount,
      score |-> item.score,
      subscription |-> FindSubscription(item, subs) ]

publicItemToCandidate(item) ==
    [ id |-> item.id,
      type |-> "public_item",
      title |-> item.title,
      author |-> item.author,
      siteName |-> None,
      wordCount |-> item.wordCount,
      score |-> NoScore,
      subscription |-> [name |-> item.source.name, type |-> item.source.type] ]

\* the private candidates without the cut to 70
privateCandidatesUncut ==
    [i \in 1..Len(libraryItems) |->
        libraryItemToCandidate(libraryItems[i], subscriptions)]

\* libraryItems.map(toCandidate).slice(0, 70)
privateCandidates ==
    Slice([i \in 1..Len(libraryItems) |->
               libraryItemToCandidate(libraryItems[i], subscriptions)],
          PRIVATE_LIMIT)

\* the public candidates cut to a fixed 30 instead of the remaining vacancies
publicCandidatesFixed30(items) ==
    Slice([j \in 1..Len(items) |-> publicItemToCandidate(items[j])], 30)

\* publicItems.map(publicItemToCandidate).slice(0, 100 - privateCandidatesSize)
publicCandidates(items) ==
    Slice([j \in 1..Len(items) |-> publicItemToCandidate(items[j])],
          TOTAL_LIMIT - Len(privateCandidates))

SelectInit ==
    /\ selPc = "searchLibraryItems"
    /\ libraryItems = <<>>
    /\ subscriptions = {}
    /\ publicItems = <<>>
    /\ selected = <<>>

\* await searchLibraryItems({size: 100, ...}, userId): at most `size` rows
SearchLibraryItems ==
    /\ selPc = "searchLibraryItems"
    /\ \E p \in 0..LIBRARY_SEARCH_SIZE :
          libraryItems' = [i \in 1..p |-> LibraryItemAt(i)]
    /\ selPc' = "findSubscriptionsByNames"
    /\ UNCHANGED <<subscriptions, publicItems, selected>>
    /\ UNCHANGED notSel

\* await findSubscriptionsByNames(userId, subscriptionNames): the user's
\* subscriptions among the requested names
FindSubscriptionsByNames ==
    /\ selPc = "findSubscriptionsByNames"
    /\ LET hasSub(item) == item.subscription # None
           names == {it.subscription : it \in Range(SelectSeq(libraryItems, hasSub))}
       IN  \E subs \in SUBSET {s \in KnownSubscriptions : s.name \in names} :
              subscriptions' = subs
    /\ selPc' = "findUnseenPublicItems"
    /\ UNCHANGED <<libraryItems, publicItems, selected>>
    /\ UNCHANGED notSel

\* await findUnseenPublicItems(userId, {limit: 100}) and the return
FindUnseenPublicItems ==
    /\ selPc = "findUnseenPublicItems"
    /\ \E q \in 0..PUBLIC_ITEMS_LIMIT :
          LET items == [j \in 1..q |-> PublicItemAt(j)]
          IN  /\ publicItems' = items
              /\ selected' = privateCandidates \o publicCandidates(items)
    /\ selPc' = "done"
    /\ UNCHANGED <<libraryItems, subscriptions>>
    /\ UNCHANGED notSel

SelectNext ==
    \/ SearchLibraryItems
    \/ FindSubscriptionsByNames
    \/ FindUnseenPublicItems

SelectIdle ==
    /\ selPc = "idle"
    /\ libraryItems = <<>>
    /\ subscriptions = {}
    /\ publicItems = <<>>
    /\ selected = <<>>

(***************************************************************************)
(* Ranker                                                                  *)
(***************************************************************************)

\* if (candidates.length <= 10) return candidates
RANK_SKIP_MAX == 10

\* Longest candidate list handed to the ranker
MaxRankLen == 12

\* Precomputed scores a candidate may carry, and scores the scorer may return
\* (None: no score, respectively no entry for that key)
PreScores == {NoScore, Score(-1), Score(0), Score(2)}
FreshScores == {NoScore, Score(-2), Score(1)}

\* The i-th candidate of a ranker input: unique ids, the precomputed score
\* follows the pattern `pre` with period 3.
RankCandidateAt(i, pre) ==
    [ id |-> i,
      type |-> IF i % 2 = 0 THEN "library_item" ELSE "public_item",
      title |-> i,
      author |-> None,
      siteName |-> None,
      wordCount |-> 100 + i,
      score |-> pre[i % 3],
      subscription |-> NoSubscription ]

ShouldSkipRankingStrict(candidates) == Len(candidates) < RANK_SKIP_MAX

\* candidates.length <= 10
ShouldSkipRanking(candidates) == Len(candidates) <= RANK_SKIP_MAX

AllCandidates(candidates) == candidates

\* candidates.filter((item) => item.score === undefined)
unscoredCandidates(candidates) ==
    LET unscored(item) == item.score = NoScore
    IN  SelectSeq(candidates, unscored)

\* the keys of data.item_features
RequestKeys(candidates) ==
    {item.id : item \in Range(unscoredCandidates(candidates))}

\* candidates.filter(item => item.score !== undefined).reduce(acc[id] = score)
preCalculatedScores(candidates) ==
    LET scored == {item \in Range(candidates) : item.score # NoScore}
    IN  [k \in {item.id : item \in scored} |->
            LET last == CHOOSE i \in 1..Len(candidates) :
                          /\ candidates[i].id = k
                          /\ candidates[i].score # NoScore
                          /\ \A j \in (i+1)..Len(candidates) :
                                ~(candidates[j].id = k /\ candidates[j].score # NoScore)
            IN  candidates[last].score[1]]

\* { ...preCalculatedScores, ...newScores }
MergeScores(pre, fresh) ==
    [k \in DOMAIN pre \cup DOMAIN fresh |-> IF k \in DOMAIN fresh THEN fresh[k] ELSE pre[k]]

\* scores[id] || 0
ScoreOrZero(scores, id) ==
    IF id \in DOMAIN scores /\ scores[id] # 0 THEN scores[id] ELSE 0

CompareDescending(scores, a, b) == ScoreOrZero(scores, b.id) - ScoreOrZero(scores, a.id)

\* (a, b) => scoreA - scoreB
CompareScores(scores, a, b) == ScoreOrZero(scores, a.id) - ScoreOrZero(scores, b.id)

\* Array.prototype.sort is stable: x goes behind every element that does not
\* compare greater than it.
RECURSIVE InsertSorted(_, _, _)
InsertSorted(scores, sorted, x) ==
    IF sorted = <<>> THEN <<x>>
    ELSE IF CompareScores(scores, sorted[Len(sorted)], x) <= 0 THEN Append(sorted, x)
    ELSE Append(InsertSorted(scores, SubSeq(sorted, 1, Len(sorted) - 1), x),
                sorted[Len(sorted)])

RECURSIVE SortPrefix(_, _, _)
SortPrefix(scores, candidates, n) ==
    IF n = 0 THEN <<>>
    ELSE InsertSorted(scores, SortPrefix(scores, candidates, n - 1), candidates[n])

\* candidates.sort((a, b) => scoreA - scoreB)
SortByScore(scores, candidates) == SortPrefix(scores, candidates, Len(candidates))

RankInit ==
    /\ rankPc = "start"
    /\ \E n \in 0..MaxRankLen : \E pre \in [0..2 -> PreScores] :
          rankInput = [i \in 1..n |-> RankCandidateAt(i, pre)]
    /\ rankRequests = <<>>
    /\ newScores = <<>>
    /\ rankOutput = <<>>

RankIdle ==
    /\ rankPc = "idle"
    /\ rankInput = <<>>
    /\ rankRequests = <<>>
    /\ newScores = <<>>
    /\ rankOutput = <<>>

\* the early return for short lists
RankSkip ==
    /\ rankPc = "start"
    /\ ShouldSkipRanking(rankInput)
    /\ rankOutput' = rankInput
    /\ rankPc' = "done"
    /\ UNCHANGED <<rankInput, rankRequests, newScores>>
    /\ UNCHANGED notRank

\* the call of getScores(data), up to the await
RankRequest ==
    /\ rankPc = "start"
    /\ ~ShouldSkipRanking(rankInput)
    /\ rankRequests' = Append(rankRequests, RequestKeys(rankInput))
    /\ rankPc' = "getScores"
    /\ UNCHANGED <<rankInput, newScores, rankOutput>>
    /\ UNCHANGED notRank

\* getScores resolves with scores for some of the requested keys (the answer
\* follows the pattern `fresh` with period 2); merge, sort in place, return
RankScored ==
    /\ rankPc = "getScores"
    /\ \E fresh \in [0..1 -> FreshScores] :
          LET keys == {k \in rankRequests[Len(rankRequests)] : fresh[k % 2] # NoScore}
              resp == [k \in keys |-> fresh[k % 2][1]]
              scores == MergeScores(preCalculatedScores(rankInput), resp)
          IN  /\ newScores' = resp
              /\ rankOutput' = SortByScore(scores, rankInput)
    /\ rankPc' = "done"
    /\ UNCHANGED <<rankInput, rankRequests>>
    /\ UNCHANGED notRank

RankNext ==
    \/ RankSkip
    \/ RankRequest
    \/ RankScored

(***************************************************************************)
(* Mixer                                                                   *)
(***************************************************************************)

\* Longest candidate list handed to the mixer
MaxMixLen == 21

\* items per batch, and the part of a batch filled under the constraints
BATCH_SIZE == 10
BATCH_CONSTRAINED == 5

\* The kinds of candidate the mixer is fed: "fresh" shares nothing with any
\* other item, the next four share exactly one attribute with the items of
\* their kind, "bare" has no author, no site name and no subscription.
MixKinds == {"fresh", "sameTitle", "sameAuthor", "sameSite", "sameSub", "bare"}

\* The i-th candidate of a mixer input: unique ids, the kind follows the
\* pattern `kinds` with period 3.
MixCandidateAt(i, kinds) ==
    LET k == kinds[i % 3]
        own == ToString(i)
    IN  [ id |-> i,
          type |-> IF k = "bare" THEN "public_item" ELSE "library_item",
          title |-> IF k = "sameTitle" THEN "dup" ELSE own,
          author |-> CASE k = "sameAuthor" -> "ann" [] k = "bare" -> None [] OTHER -> own,
          siteName |-> CASE k = "sameSite" -> "siteA" [] k = "bare" -> None [] OTHER -> own,
          wordCount |-> CASE k \in {"fresh", "sameTitle"} -> 300
                          [] k \in {"sameSub", "bare"} -> 200
                          [] OTHER -> 100,
          score |-> NoScore,
          subscription |-> CASE k = "sameSub" -> [name |-> "feedA", type |-> "RSS"]
                             [] k = "bare" -> NoSubscription
                             [] OTHER -> [name |-> own, type |-> "RSS"] ]

\* wordCounts.sort((a, b) => a - b): the k-th smallest (1-based) word count
SortedWordCountAt(items, k) ==
    CHOOSE w \in {items[i].wordCount : i \in 1..Len(items)} :
        /\ Cardinality({i \in 1..Len(items) : items[i].wordCount < w}) < k
        /\ Cardinality({i \in 1..Len(items) : items[i].wordCount <= w}) >= k

\* wordCounts[Math.floor(wordCounts.length / 2)] (0-based index)
medianWordCount(items) == SortedWordCountAt(items, (Len(items) \div 2) + 1)

\* the split of rankedFeedItems by word count, order kept
SplitLong(items) ==
    LET isLong(item) == ~(item.wordCount < medianWordCount(items))
    IN  IF items = <<>> THEN <<>> ELSE SelectSeq(items, isLong)

SplitShort(items) ==
    LET isShort(item) == item.wordCount < medianWordCount(items)
    IN  IF items = <<>> THEN <<>> ELSE SelectSeq(items, isShort)

\* batch.filter(i => i.<field> === item.<field>).length
CountSame(batch, item, field) ==
    Cardinality({i \in 1..Len(batch) : batch[i][field] = item[field]})

CountSameSubscription(batch, item) ==
    Cardinality({i \in 1..Len(batch) : batch[i].subscription.name = item.subscription.name})

checkConstraintsNoTitle(batch, item) ==
    /\ CountSame(batch, item, "author") < 2
    /\ CountSame(batch, item, "siteName") < 2
    /\ CountSameSubscription(batch, item) < 2

checkConstraints(batch, item) ==
    /\ CountSame(batch, item, "title") < 1
    /\ CountSame(batch, item, "author") < 2
    /\ CountSame(batch, item, "siteName") < 2
    /\ CountSameSubscription(batch, item) < 2

\* the first loop of distributeItems: the batches that take the item under
\* the constraints
ConstrainedFits(bs, item) ==
    {b \in 1..Len(bs) : Len(bs[b]) < BATCH_CONSTRAINED /\ checkConstraints(bs[b], item)}

\* the second loop with room for nine
OverflowFitsNine(bs) == {b \in 1..Len(bs) : Len(bs[b]) < BATCH_SIZE - 1}

\* the second loop: the batches with room left
OverflowFits(bs) == {b \in 1..Len(bs) : Len(bs[b]) < BATCH_SIZE}

\* for (const batch of batches) ... break: the first of them
FirstOf(S) == CHOOSE b \in S : \A c \in S : b <= c

\* the long items distributed twice
MixQueueLongTwice == longItems \o longItems \o shortItems

\* distributeItems(longItems, batches); distributeItems(shortItems, batches)
MixQueue == longItems \o shortItems

\* the sections of one batch: five "long" ones, then the "quick links" one
ItemRef(c) == [id |-> c.id, type |-> c.type]

\* the "quick links" section starting one position early
BatchSectionsFromFourth(batch) ==
    [i \in 1..BATCH_CONSTRAINED |-> [items |-> <<ItemRef(batch[i])>>, layout |-> "long"]]
    \o << [items |-> [i \in 1..(Len(batch) - BATCH_CONSTRAINED + 1) |->
                        ItemRef(batch[BATCH_CONSTRAINED - 1 + i])],
           layout |-> "quick links"] >>

BatchSections(batch) ==
    [i \in 1..BATCH_CONSTRAINED |-> [items |-> <<ItemRef(batch[i])>>, layout |-> "long"]]
    \o << [items |-> [i \in 1..(Len(batch) - BATCH_CONSTRAINED) |->
                        ItemRef(batch[BATCH_CONSTRAINED + i])],
           layout |-> "quick links"] >>

RECURSIVE SectionsOf(_)
SectionsOf(bs) ==
    IF bs = <<>> THEN <<>> ELSE BatchSections(Head(bs)) \o SectionsOf(Tail(bs))

MixInit ==
    /\ mixPc = "start"
    /\ \E n \in 0..MaxMixLen : \E kinds \in [0..2 -> MixKinds] :
          mixInput = [i \in 1..n |-> MixCandidateAt(i, kinds)]
    /\ longItems = <<>>
    /\ shortItems = <<>>
    /\ mixPos = 0
    /\ batches = <<>>
    /\ added = <<>>
    /\ sections = <<>>

MixIdle ==
    /\ mixPc = "idle"
    /\ mixInput = <<>>
    /\ longItems = <<>>
    /\ shortItems = <<>>
    /\ mixPos = 0
    /\ batches = <<>>
    /\ added = <<>>
    /\ sections = <<>>

\* the median, the split and the empty batches
MixSplit ==
    /\ mixPc = "start"
    /\ longItems' = SplitLong(mixInput)
    /\ shortItems' = SplitShort(mixInput)
    /\ batches' = [b \in 1..(Len(mixInput) \div BATCH_SIZE) |-> <<>>]
    /\ added' = [b \in 1..(Len(mixInput) \div BATCH_SIZE) |-> <<>>]
    /\ mixPc' = "distribute"
    /\ UNCHANGED <<mixInput, mixPos, sections>>
    /\ UNCHANGED notMix

\* one item of distributeItems placed by the first loop (added = true)
PlaceConstrained ==
    /\ mixPc = "distribute"
    /\ mixPos < Len(MixQueue)
    /\ LET item == MixQueue[mixPos + 1]
           fits == ConstrainedFits(batches, item)
       IN  /\ fits # {}
           /\ batches' = [batches EXCEPT ![FirstOf(fits)] = Append(@, item)]
           /\ added' = [added EXCEPT ![FirstOf(fits)] = Append(@, TRUE)]
    /\ mixPos' = mixPos + 1
    /\ UNCHANGED <<mixPc, mixInput, longItems, shortItems, sections>>
    /\ UNCHANGED notMix

\* one item placed by the second loop (added stayed false)
PlaceOverflow ==
    /\ mixPc = "distribute"
    /\ mixPos < Len(MixQueue)
    /\ LET item == MixQueue[mixPos + 1]
       IN  /\ ConstrainedFits(batches, item) = {}
           /\ OverflowFits(batches) # {}
           /\ batches' = [batches EXCEPT ![FirstOf(OverflowFits(batches))] = Append(@, item)]
           /\ added' = [added EXCEPT ![FirstOf(OverflowFits(batches))] = Append(@, FALSE)]
    /\ mixPos' = mixPos + 1
    /\ UNCHANGED <<mixPc, mixInput, longItems, shortItems, sections>>
    /\ UNCHANGED notMix

\* one item that neither loop places: every batch is full
PlaceNowhere ==
    /\ mixPc = "distribute"
    /\ mixPos < Len(MixQueue)
    /\ ConstrainedFits(batches, MixQueue[mixPos + 1]) = {}
    /\ OverflowFits(batches) = {}
    /\ mixPos' = mixPos + 1
    /\ UNCHANGED <<mixPc, mixInput, longItems, shortItems, batches, added, sections>>
    /\ UNCHANGED notMix

\* convert batches to sections; batch[i].id throws a TypeError when a batch
\* holds fewer than 5 items
MixEmit ==
    /\ mixPc = "distribute"
    /\ mixPos = Len(MixQueue)
    /\ IF \E b \in 1..Len(batches) : Len(batches[b]) < BATCH_CONSTRAINED
       THEN /\ mixPc' = "TypeError"
            /\ sections' = sections
       ELSE /\ mixPc' = "done"
            /\ sections' = SectionsOf(batches)
    /\ UNCHANGED <<mixInput, longItems, shortItems, mixPos, batches, added>>
    /\ UNCHANGED notMix

MixNext ==
    \/ MixSplit
    \/ PlaceConstrained
    \/ PlaceOverflow
    \/ PlaceNowhere
    \/ MixEmit

(***************************************************************************)
(* Feed Store: serialized sections in a Redis sorted set                   *)
(***************************************************************************)

\* const MAX_FEED_ITEMS = 500, scaled down: the store holds at most this many
MAX_FEED_ITEMS == 2

\* 86_400_000: sections expire in 24 hours
EXPIRY_MS == 86400000

\* The sections handed to the store; item ids are single digits.
SectionPool ==
    { [items |-> << [id |-> 1, type |-> "library_item"] >>, layout |-> "long"],
      [items |-> << [id |-> 2, type |-> "public_item"] >>, layout |-> "long"],
      [items |-> << [id |-> 1, type |-> "library_item"],
                    [id |-> 2, type |-> "public_item"] >>, layout |-> "quick links"],
      [items |-> << >>, layout |-> "quick links"] }

\* JSON.stringify(section) is
\*   {"items":[{"id":"1","type":"library_item"},...],"layout":"long"}
\* A member is kept as the sequence of the character codes at which two such
\* texts can first differ: per item "{" (123), the id's digit, the first
\* letter of the type, and "," (44) or the closing "]" (93); then the first
\* letter of the layout.  Comparing these sequences compares the texts.
TypeCode(t) == IF t = "library_item" THEN 108 ELSE 112
LayoutCode(l) == IF l = "long" THEN 108 ELSE 113

JSONStringifyItems(items) ==
    IF items = <<>> THEN <<93>>
    ELSE LET tok(k) == <<123, 48 + items[k].id, TypeCode(items[k].type),
                         IF k < Len(items) THEN 44 ELSE 93>>
             cat[k \in 0..Len(items)] == IF k = 0 THEN <<>> ELSE cat[k - 1] \o tok(k)
         IN  cat[Len(items)]

JSONStringify(section) ==
    JSONStringifyItems(section.items) \o <<LayoutCode(section.layout)>>

\* JSON.parse(member) as Section
JSONParse(member) ==
    LET n == (Len(member) - 1) \div 4
    IN  [ items |-> [k \in 1..n |->
                       [id |-> member[4 * k - 2] - 48,
                        type |-> IF member[4 * k - 1] = 108 THEN "library_item"
                                                           ELSE "public_item"]],
          layout |-> IF member[Len(member)] = 108 THEN "long" ELSE "quick links" ]

\* byte-wise order of two members (memcmp, the shorter first on a tie)
LexLess(a, b) ==
    \E k \in 1..(Min(Len(a), Len(b)) + 1) :
        /\ \A i \in 1..(k - 1) : a[i] = b[i]
        /\ IF k > Len(a) THEN k <= Len(b)
           ELSE k <= Len(b) /\ a[k] < b[k]

\* The sorted set is a function from its members to their scores; Redis
\* orders it by score and, among equal scores, by member.
EmptyZSet == [m \in {} |-> 0]

ZLess(z, a, b) == z[a] < z[b] \/ (z[a] = z[b] /\ LexLess(a, b))

\* 0-based rank of a member, lowest score first
ZRank(z, a) == Cardinality({b \in DOMAIN z : ZLess(z, b, a)})

ZRestrict(z, keep) == [m \in keep |-> z[m]]

\* ZADD with NX: a member already there keeps its score
ZAddKeepingScores(z, scoreMembers) ==
    [m \in DOMAIN z \cup {scoreMembers[i][2] : i \in 1..Len(scoreMembers)} |->
        IF m \in DOMAIN z THEN z[m]
        ELSE scoreMembers[CHOOSE i \in 1..Len(scoreMembers) :
                             /\ scoreMembers[i][2] = m
                             /\ \A j \in 1..(i - 1) : scoreMembers[j][2] # m][1]]

\* ZADD key score member [score member ...]: pairs applied left to right; a
\* member already there gets the new score.  Without pairs the command is
\* an error and changes nothing.
RECURSIVE ZAdd(_, _)
ZAdd(z, scoreMembers) ==
    IF scoreMembers = <<>> THEN z
    ELSE LET sm == Head(scoreMembers)
             z1 == [m \in DOMAIN z \cup {sm[2]} |-> IF m = sm[2] THEN sm[1] ELSE z[m]]
         IN  ZAdd(z1, Tail(scoreMembers))

\* ZREMRANGEBYRANK key start stop, negative indexes counting from the end
ZRemRangeByRank(z, start, stop) ==
    LET n == Cardinality(DOMAIN z)
        from == IF start < 0 THEN Max(n + start, 0) ELSE start
        to == IF stop < 0 THEN n + stop ELSE Min(stop, n - 1)
    IN  ZRestrict(z, {m \in DOMAIN z : ~(from <= ZRank(z, m) /\ ZRank(z, m) <= to)})

\* ZREMRANGEBYSCORE key -inf max
ZRemRangeByScore(z, max) == ZRestrict(z, {m \in DOMAIN z : z[m] > max})

\* the optional maxScore argument: <<>> when not given
NoCeiling == <<>>
Ceiling(c) == <<c>>

\* maxScore ? ... : ... takes the first branch for a number other than 0
Truthy(maxScore) == maxScore # NoCeiling /\ maxScore[1] # 0

\* maxScore ? maxScore - 1 : '+inf'; [inf |-> TRUE] is '+inf'
RangeMax(maxScore) ==
    IF Truthy(maxScore) THEN [inf |-> FALSE, v |-> maxScore[1] - 1]
    ELSE [inf |-> TRUE, v |-> 0]

\* ZREVRANGEBYSCORE key max -inf WITHSCORES LIMIT 0 count: the members with
\* score <= max, highest first, at most count of them (all for count < 0)
ZRevRangeByScore(z, max, count) ==
    LET inRange == {m \in DOMAIN z : max.inf \/ z[m] <= max.v}
        sub == ZRestrict(z, inRange)
        n == Cardinality(inRange)
        len == IF count < 0 THEN n ELSE Min(count, n)
    IN  [i \in 1..len |->
            LET m == CHOOSE m \in inRange : ZRank(sub, m) = n - i
            IN  <<m, z[m]>>]

\* getJustReadFeedSections(userId, limit, maxScore?) on the user's set
getJustReadFeedSections(z, limit, maxScore) ==
    LET results == ZRevRangeByScore(z, RangeMax(maxScore), limit)
    IN  [i \in 1..Len(results) |->
            [member |-> JSONParse(results[i][1]), score |-> results[i][2]]]

\* the score without the index
scoreMembersNoIndex(secs, nows) ==
    [i \in 1..Len(secs) |-> <<nows[i] + EXPIRY_MS, JSONStringify(secs[i])>>]

\* sections.flatMap((section, index) => [Date.now() + index + 86_400_000,
\* JSON.stringify(section)]); nows[i] is the clock read for index i - 1
scoreMembers(secs, nows) ==
    [i \in 1..Len(secs) |-> <<nows[i] + (i - 1) + EXPIRY_MS, JSONStringify(secs[i])>>]

\* the three commands of the pipeline, in order
AfterZAdd(z, secs, nows) == ZAdd(z, scoreMembers(secs, nows))
TrimKeepingOneMore(z) == ZRemRangeByRank(z, 0, -(MAX_FEED_ITEMS + 2))
Trim(z) == ZRemRangeByRank(z, 0, -(MAX_FEED_ITEMS + 1))
ExpireStrictlyBelow(z, now) == ZRemRangeByScore(z, now - 1)
Expire(z, now) == ZRemRangeByScore(z, now)

\* Bounds of the store's runs: ticks of the clock within a day, days, and
\* clock ticks within one call
MaxTicks == 1
MaxDays == 1
MaxCallElapsed == 0

\* the longest sections array of a call, and the largest limit of a retrieval
MaxAppend == Cardinality(SectionPool) \div 2
MaxLimit == MAX_FEED_ITEMS + 1

\* the arrays of pairwise different sections of the pool, up to n long
RECURSIVE SectionArrays(_)
SectionArrays(n) ==
    IF n = 0 THEN {<<>>}
    ELSE LET shorter == SectionArrays(n - 1)
         IN  shorter \cup
             UNION {{Append(a, x) : x \in SectionPool \ Range(a)} :
                       a \in {b \in shorter : Len(b) = n - 1}}

\* the clock values a call may read from time t on
ReadableFrom(t) ==
    {u \in t..(t + MaxCallElapsed) : u % EXPIRY_MS <= MaxTicks}

\* the n + 1 reads of Date.now() of a call appending n sections: one per
\* section, one for the expiry command, never decreasing
NowReads(n) ==
    {nows \in [1..(n + 1) -> ReadableFrom(clock)] :
        \A i \in 1..n : nows[i] <= nows[i + 1]}

StoreInit ==
    /\ store = EmptyZSet
    /\ clock = 0
    /\ op = [kind |-> "none"]
    /\ everAppended = EmptyZSet

\* The store's callers issue one call at a time: op holds the call that
\* has just resolved until its caller has taken the result.
Idle == op.kind = "none"

\* a millisecond passes
Tick ==
    /\ Idle
    /\ clock % EXPIRY_MS < MaxTicks
    /\ clock' = clock + 1
    /\ UNCHANGED <<store, op, everAppended>>
    /\ UNCHANGED notStore

\* a day passes
NextDay ==
    /\ Idle
    /\ clock \div EXPIRY_MS < MaxDays
    /\ clock' = clock + EXPIRY_MS
    /\ UNCHANGED <<store, op, everAppended>>
    /\ UNCHANGED notStore

\* appendSectionsToFeed(userId, sections) with its three commands run
\* without interruption; nows[Len(secs) + 1] is the clock read of the expiry
\* command.  pipeline.exec() resolves with the replies of the commands:
\* members added, trimmed, expired.
appendSectionsToFeed(secs, nows) ==
    \E z1 \in {AfterZAdd(store, secs, nows)} :
    \E z2 \in {Trim(z1)} :
    \E z3 \in {Expire(z2, nows[Len(secs) + 1])} :
        /\ store' = z3
        /\ clock' = nows[Len(secs) + 1]
        /\ op' = [kind |-> "append", sections |-> secs, nows |-> nows,
                  replies |-> << Cardinality(DOMAIN z1) - Cardinality(DOMAIN store),
                                 Cardinality(DOMAIN z1) - Cardinality(DOMAIN z2),
                                 Cardinality(DOMAIN z2) - Cardinality(DOMAIN z3) >>]
        /\ everAppended' =
              Expire(AfterZAdd(everAppended, secs, nows), nows[Len(secs) + 1])
        /\ UNCHANGED notStore

AppendSections ==
    /\ Idle
    /\ \E secs \in SectionArrays(MaxAppend) : \E nows \in NowReads(Len(secs)) :
          appendSectionsToFeed(secs, nows)

\* the ceilings a caller passes: none, 0, or a stored score (the cursor a
\* page ends with)
CeilingChoices ==
    {NoCeiling, Ceiling(0)} \cup {Ceiling(store[m]) : m \in DOMAIN store}

\* one call of getJustReadFeedSections
GetSections ==
    /\ Idle
    /\ \E limit \in (-1)..MaxLimit : \E maxScore \in CeilingChoices :
          op' = [kind |-> "get", limit |-> limit, maxScore |-> maxScore,
                 result |-> getJustReadFeedSections(store, limit, maxScore)]
    /\ UNCHANGED <<store, clock, everAppended>>
    /\ UNCHANGED notStore

\* the caller has taken the result of the call
Return ==
    /\ ~Idle
    /\ op' = [kind |-> "none"]
    /\ UNCHANGED <<store, clock, everAppended>>
    /\ UNCHANGED notStore

StoreIdle ==
    /\ store = EmptyZSet
    /\ clock = 0
    /\ op = [kind |-> "idle"]
    /\ everAppended = EmptyZSet

StoreNext ==
    \/ Tick
    \/ NextDay
    \/ AppendSections
    \/ GetSections
    \/ Return

(***************************************************************************)
(* Feed Store under concurrent callers                                     *)
(***************************************************************************)

\* Two jobs of one user append while a reader retrieves.  redisClient
\* .pipeline() sends the queued commands in one batch without MULTI/EXEC:
\* the server runs them in order, and may run the commands of other
\* connections in between.
Appenders == {"job1", "job2"}

\* the sections arrays the concurrent jobs append
PipeArrays == SectionArrays(1)

\* pipeline.zadd(key, ...scoreMembers); pipeline.zremrangebyrank(key, 0,
\* -(MAX_FEED_ITEMS + 1)); pipeline.zremrangebyscore(key, '-inf', Date.now())
PipelineOf(secs, nows) ==
    << [cmd |-> "zadd", args |-> scoreMembers(secs, nows)],
       [cmd |-> "zremrangebyrank", args |-> <<0, -(MAX_FEED_ITEMS + 1)>>],
       [cmd |-> "zremrangebyscore", args |-> <<nows[Len(secs) + 1]>>] >>

\* the server runs one command on the sorted set
Execute(z, command) ==
    CASE command.cmd = "zadd" -> ZAdd(z, command.args)
      [] command.cmd = "zremrangebyrank" ->
            ZRemRangeByRank(z, command.args[1], command.args[2])
      [] command.cmd = "zremrangebyscore" -> ZRemRangeByScore(z, command.args[1])

\* the jobs whose add has run and whose trim or expiry has not
MidAppend == {c \in Appenders : Len(pipelines[c]) \in {1, 2}}

PipeInit ==
    /\ store = EmptyZSet
    /\ clock = 0
    /\ op = [kind |-> "none"]
    /\ everAppended = EmptyZSet
    /\ pipelines = [c \in Appenders |-> <<>>]
    /\ observed = [entries |-> 0, midAppend |-> {}]

\* await pipeline.exec() of job c: its three commands go to the server
PipelineExec(c) ==
    /\ pipelines[c] = <<>>
    /\ \E secs \in PipeArrays :
          pipelines' = [pipelines EXCEPT
                          ![c] = PipelineOf(secs, [i \in 1..(Len(secs) + 1) |-> clock])]
    /\ UNCHANGED <<store, clock, observed>>
    /\ UNCHANGED notPipe

\* the server runs the next command of job c
ServeCommand(c) ==
    /\ pipelines[c] # <<>>
    /\ store' = Execute(store, Head(pipelines[c]))
    /\ pipelines' = [pipelines EXCEPT ![c] = Tail(pipelines[c])]
    /\ UNCHANGED <<clock, observed>>
    /\ UNCHANGED notPipe

\* the server runs the ZREVRANGEBYSCORE of a getJustReadFeedSections call
\* without ceiling and without limit
ServeRetrieval ==
    /\ observed' = [entries |-> Len(getJustReadFeedSections(store, -1, NoCeiling)),
                    midAppend |-> MidAppend]
    /\ UNCHANGED <<store, clock, pipelines>>
    /\ UNCHANGED notPipe

PipeIdle ==
    /\ pipelines = <<>>
    /\ observed = <<>>

PipeNext ==
    \/ \E c \in Appenders : PipelineExec(c)
    \/ \E c \in Appenders : ServeCommand(c)
    \/ ServeRetrieval

(***************************************************************************)
(* updateJustReadFeed: one run of the job                                  *)
(***************************************************************************)

\* Bounds of a run: the items the two sources return
MaxJobPrivate == 6
MaxJobPublic == 6

\* the user's feed before the run: one section appended at clock 0
JobStoreBefore == AfterZAdd(EmptyZSet, << [items |-> <<>>, layout |-> "quick links"] >>, <<0>>)

\* an awaited call that rejects: nothing catches it, the job rejects
OnRejectContinue(next) == next
OnReject(next) == "threw"

\* if (!user) return
NoUser(user) == user = "null"

\* if (rankedCandidates.length === 0) return
NoCandidatesNever(n) == FALSE
NoCandidates(n) == n = 0

\* the sections mixFeedItems makes of n candidates: those of floor(n/10)
\* batches of 10
JobSections(n) ==
    SectionsOf([b \in 1..(n \div BATCH_SIZE) |->
                  [i \in 1..BATCH_SIZE |->
                      [id |-> BATCH_SIZE * (b - 1) + i, type |-> "library_item"]]])

JobInit ==
    /\ jobPc = "findActiveUser"
    /\ jobUser = "unknown"
    /\ jobCandidates = 0
    /\ jobLog = <<>>
    /\ jobFailed = {}
    /\ store = JobStoreBefore
    /\ clock \in {1, EXPIRY_MS}
    /\ op = [kind |-> "none"]
    /\ everAppended = EmptyZSet

\* the awaited calls to collaborators, and the position after each
JobCalls == {"findActiveUser", "searchLibraryItems", "findSubscriptionsByNames",
             "findUnseenPublicItems", "getScores"}

JobAfter(call) ==
    CASE call = "findActiveUser" -> "searchLibraryItems"
      [] call = "searchLibraryItems" -> "findSubscriptionsByNames"
      [] call = "findSubscriptionsByNames" -> "findUnseenPublicItems"
      [] call = "findUnseenPublicItems" -> "rankCandidates"
      [] call = "getScores" -> "rankedCandidates"

\* the awaited call rejects
JobCallFails ==
    /\ jobPc \in JobCalls
    /\ jobLog' = Append(jobLog, jobPc)
    /\ jobFailed' = jobFailed \cup {jobPc}
    /\ jobPc' = OnReject(JobAfter(jobPc))
    /\ UNCHANGED <<jobUser, jobCandidates, store, clock>>
    /\ UNCHANGED notJob

\* const user = await findActiveUser(userId); if (!user) return
FindActiveUser ==
    /\ jobPc = "findActiveUser"
    /\ jobLog' = Append(jobLog, "findActiveUser")
    /\ \E user \in {"user", "null"} :
          /\ jobUser' = user
          /\ jobPc' = IF NoUser(user) THEN "returned" ELSE "searchLibraryItems"
    /\ UNCHANGED <<jobCandidates, jobFailed, store, clock>>
    /\ UNCHANGED notJob

\* selectCandidates: the private items, cut to 70
JobSearchLibraryItems ==
    /\ jobPc = "searchLibraryItems"
    /\ jobLog' = Append(jobLog, "searchLibraryItems")
    /\ \E p \in 0..MaxJobPrivate : jobCandidates' = Min(p, PRIVATE_LIMIT)
    /\ jobPc' = "findSubscriptionsByNames"
    /\ UNCHANGED <<jobUser, jobFailed, store, clock>>
    /\ UNCHANGED notJob

JobFindSubscriptionsByNames ==
    /\ jobPc = "findSubscriptionsByNames"
    /\ jobLog' = Append(jobLog, "findSubscriptionsByNames")
    /\ jobPc' = "findUnseenPublicItems"
    /\ UNCHANGED <<jobUser, jobCandidates, jobFailed, store, clock>>
    /\ UNCHANGED notJob

\* the public items, cut to the vacancies
JobFindUnseenPublicItems ==
    /\ jobPc = "findUnseenPublicItems"
    /\ jobLog' = Append(jobLog, "findUnseenPublicItems")
    /\ \E q \in 0..MaxJobPublic :
          jobCandidates' = jobCandidates + Min(q, TOTAL_LIMIT - jobCandidates)
    /\ jobPc' = "rankCandidates"
    /\ UNCHANGED <<jobUser, jobFailed, store, clock>>
    /\ UNCHANGED notJob

\* rankCandidates of at most 10 candidates: returned as they are
JobRankSkip ==
    /\ jobPc = "rankCandidates"
    /\ jobCandidates <= RANK_SKIP_MAX
    /\ jobPc' = "rankedCandidates"
    /\ UNCHANGED <<jobUser, jobCandidates, jobLog, jobFailed, store, clock>>
    /\ UNCHANGED notJob

\* rankCandidates of more: about to await getScores(data)
JobRankRequest ==
    /\ jobPc = "rankCandidates"
    /\ jobCandidates > RANK_SKIP_MAX
    /\ jobPc' = "getScores"
    /\ UNCHANGED <<jobUser, jobCandidates, jobLog, jobFailed, store, clock>>
    /\ UNCHANGED notJob

JobGetScores ==
    /\ jobPc = "getScores"
    /\ jobLog' = Append(jobLog, "getScores")
    /\ jobPc' = "rankedCandidates"
    /\ UNCHANGED <<jobUser, jobCandidates, jobFailed, store, clock>>
    /\ UNCHANGED notJob

\* if (rankedCandidates.length === 0) return
JobNoCandidates ==
    /\ jobPc = "rankedCandidates"
    /\ NoCandidates(jobCandidates)
    /\ jobPc' = "returned"
    /\ UNCHANGED <<jobUser, jobCandidates, jobLog, jobFailed, store, clock>>
    /\ UNCHANGED notJob

\* mixFeedItems, then await appendSectionsToFeed(userId, rankedSections)
JobAppendSections ==
    /\ jobPc = "rankedCandidates"
    /\ ~NoCandidates(jobCandidates)
    /\ jobLog' = Append(jobLog, "pipeline.exec")
    /\ \E secs \in {JobSections(jobCandidates)} :
          store' = Expire(Trim(AfterZAdd(store, secs, [i \in 1..Len(secs) |-> clock])),
                          clock)
    /\ jobPc' = "returned"
    /\ UNCHANGED <<jobUser, jobCandidates, jobFailed, clock>>
    /\ UNCHANGED notJob

JobIdle ==
    /\ jobPc = "idle"
    /\ jobUser = "unknown"
    /\ jobCandidates = 0
    /\ jobLog = <<>>
    /\ jobFailed = {}

JobNext ==
    \/ FindActiveUser
    \/ JobSearchLibraryItems
    \/ JobFindSubscriptionsByNames
    \/ JobFindUnseenPublicItems
    \/ JobRankSkip
    \/ JobRankRequest
    \/ JobGetScores
    \/ JobNoCandidates
    \/ JobAppendSections
    \/ JobCallFails

(***************************************************************************)
(* The feed stores of several users                                        *)
(***************************************************************************)

\* the ids "1" and "12" of two users, as sequences of characters
UserIds == {<<"1">>, <<"1", "2">>}

\* one key for every user
redisKeyShared(userId) == <<"just-read-feed:">>

\* const redisKey = (userId: string) => `just-read-feed:${userId}`
redisKey(userId) == <<"just-read-feed:">> \o userId

\* the sections arrays the users' jobs append
UserArrays == {<<>>} \cup {<<s>> : s \in {t \in SectionPool : t.layout = "long"}}

\* the three commands of appendSectionsToFeed(userId, sections), on the
\* user's key
UserPipelineOf(userId, secs, nows) ==
    [k \in 1..3 |-> [key |-> redisKey(userId), command |-> PipelineOf(secs, nows)[k]]]

UsersInit ==
    /\ redis = [k \in {redisKey(u) : u \in UserIds} |-> EmptyZSet]
    /\ solo = [u \in UserIds |-> EmptyZSet]
    /\ pipelines = [u \in UserIds |-> <<>>]
    /\ observed = [user |-> <<>>, result |-> <<>>, solo |-> <<>>]

\* await pipeline.exec() of the job of user u
UserPipelineExec(u) ==
    /\ pipelines[u] = <<>>
    /\ \E secs \in UserArrays :
          pipelines' = [pipelines EXCEPT
                          ![u] = UserPipelineOf(u, secs, [i \in 1..(Len(secs) + 1) |-> clock])]
    /\ UNCHANGED <<redis, solo, observed>>
    /\ UNCHANGED notUsers

\* the server runs the next command of the job of user u
UserServeCommand(u) ==
    /\ pipelines[u] # <<>>
    /\ redis' = [redis EXCEPT ![Head(pipelines[u]).key] =
                                Execute(@, Head(pipelines[u]).command)]
    /\ solo' = [solo EXCEPT ![u] = Execute(@, Head(pipelines[u]).command)]
    /\ pipelines' = [pipelines EXCEPT ![u] = Tail(pipelines[u])]
    /\ UNCHANGED observed
    /\ UNCHANGED notUsers

\* the server runs the query of getJustReadFeedSections(u, limit) without
\* ceiling and without limit
UserServeRetrieval(u) ==
    /\ observed' = [user |-> u,
                    result |-> getJustReadFeedSections(redis[redisKey(u)], -1, NoCeiling),
                    solo |-> getJustReadFeedSections(solo[u], -1, NoCeiling)]
    /\ UNCHANGED <<redis, solo, pipelines>>
    /\ UNCHANGED notUsers

UsersIdle ==
    /\ redis = <<>>
    /\ solo = <<>>

UsersNext ==
    \/ \E u \in UserIds : UserPipelineExec(u)
    \/ \E u \in UserIds : UserServeCommand(u)
    \/ \E u \in UserIds : UserServeRetrieval(u)

(***************************************************************************)
(* Specifications                                                          *)
(***************************************************************************)

InitSelect == SelectInit /\ RankIdle /\ MixIdle /\ StoreIdle /\ PipeIdle /\ JobIdle /\ UsersIdle
SpecSelect == InitSelect /\ [][SelectNext]_vars

InitRank == RankInit /\ SelectIdle /\ MixIdle /\ StoreIdle /\ PipeIdle /\ JobIdle /\ UsersIdle
SpecRank == InitRank /\ [][RankNext]_vars

InitMix == MixInit /\ SelectIdle /\ RankIdle /\ StoreIdle /\ PipeIdle /\ JobIdle /\ UsersIdle
SpecMix == InitMix /\ [][MixNext]_vars

InitStore == StoreInit /\ SelectIdle /\ RankIdle /\ MixIdle /\ PipeIdle /\ JobIdle /\ UsersIdle
SpecStore == InitStore /\ [][StoreNext]_vars

InitPipe == PipeInit /\ SelectIdle /\ RankIdle /\ MixIdle /\ JobIdle /\ UsersIdle
SpecPipe == InitPipe /\ [][PipeNext]_vars

InitJob == JobInit /\ SelectIdle /\ RankIdle /\ MixIdle /\ PipeIdle /\ UsersIdle
SpecJob == InitJob /\ [][JobNext]_vars

InitUsers == UsersInit /\ SelectIdle /\ RankIdle /\ MixIdle /\ StoreIdle /\ JobIdle
SpecUsers == InitUsers /\ [][UsersNext]_vars

(***************************************************************************)
(* Claims about the Mixer (SpecMix)                                        *)
(***************************************************************************)

\* the items of `batch` whose field equals that of its k-th item
SharingWith(batch, k, field) == {i \in 1..Len(batch) : batch[i][field] = batch[k][field]}

SharingSubscriptionWith(batch, k) ==
    {i \in 1..Len(batch) : batch[i].subscription.name = batch[k].subscription.name}

\* C1 as stated: in every produced batch no two items with different ids
\* share a title, and at most 2 items share an author, a site name or a
\* subscription name, however the items were placed.
C1_EveryBatchDiverse ==
    mixPc = "done" =>
        \A b \in 1..Len(batches) : \A k \in 1..Len(batches[b]) :
            /\ \A i \in SharingWith(batches[b], k, "title") :
                  batches[b][i].id = batches[b][k].id
            /\ Cardinality(SharingWith(batches[b], k, "author")) <= 2
            /\ Cardinality(SharingWith(batches[b], k, "siteName")) <= 2
            /\ Cardinality(SharingSubscriptionWith(batches[b], k)) <= 2

\* C1 amended: every item placed by the constrained first-fit rule sits in
\* one of the first five positions of its batch, and among the items placed
\* in the batch before it none has its title and at most one has its author,
\* its site name or its subscription name.  Nothing is promised for items
\* placed by the overflow rule.
C1_ConstrainedPlacementsDiverse ==
    \A b \in 1..Len(batches) : \A k \in 1..Len(batches[b]) :
        added[b][k] =>
            LET before == {i \in 1..(k - 1) : TRUE}
            IN  /\ k <= 5
                /\ SharingWith(batches[b], k, "title") \cap before = {}
                /\ Cardinality(SharingWith(batches[b], k, "author") \cap before) <= 1
                /\ Cardinality(SharingWith(batches[b], k, "siteName") \cap before) <= 1
                /\ Cardinality(SharingSubscriptionWith(batches[b], k) \cap before) <= 1

\* a produced batch in which a constrained placement followed an overflow
\* placement, and which holds two items with one title
C1_Witness ==
    /\ mixPc = "done"
    /\ \E b \in 1..Len(batches) :
          /\ \E j, k \in 1..Len(batches[b]) : j < k /\ ~added[b][j] /\ added[b][k]
          /\ \E j, k \in 1..Len(batches[b]) :
                j # k /\ batches[b][j].title = batches[b][k].title

\* C11: mixFeedItems emits the sections of floor(N/10) batches in batch
\* order; each batch yields five "long" sections holding the reference to the
\* batch's item at positions 0..4, in that order, then one "quick links"
\* section holding the references to the batch's items from position 5 on
\* (0 to 5 of them), in batch order.
C11_SectionLayout ==
    /\ mixPc # "TypeError"
    /\ mixPc = "done" =>
          /\ Len(batches) = Len(mixInput) \div 10
          /\ Len(sections) = 6 * Len(batches)
          /\ \A b \in 1..Len(batches) :
                /\ \A i \in 1..5 :
                      sections[6 * (b - 1) + i] =
                          [items |-> << [id |-> batches[b][i].id,
                                         type |-> batches[b][i].type] >>,
                           layout |-> "long"]
                /\ sections[6 * b].layout = "quick links"
                /\ Len(sections[6 * b].items) = Len(batches[b]) - 5
                /\ Len(sections[6 * b].items) \in 0..5
                /\ \A i \in 1..Len(sections[6 * b].items) :
                      sections[6 * b].items[i] =
                          [id |-> batches[b][5 + i].id, type |-> batches[b][5 + i].type]

\* two batches turned into twelve sections, with candidates left over
C11_Witness ==
    /\ mixPc = "done"
    /\ Len(mixInput) > 20
    /\ Len(sections) = 12
    /\ sections[12].layout = "quick links"

\* C18: when distribution ends every one of the floor(N/10) batches holds
\* exactly 10 candidates, so positions 0..4 of every batch exist and every
\* "quick links" section holds exactly 5 item references.
C18_BatchesHoldTen ==
    /\ mixPc # "TypeError"
    /\ (mixPc = "done" \/ (mixPc = "distribute" /\ mixPos = Len(MixQueue))) =>
          /\ Len(batches) = Len(mixInput) \div 10
          /\ \A b \in 1..Len(batches) : Len(batches[b]) = 10
    /\ mixPc = "done" =>
          \A k \in 1..Len(sections) :
              sections[k].layout = "quick links" => Len(sections[k].items) = 5

\* distribution ended with diversity conflicts: one of the first five
\* positions of a batch was filled by the second loop
C18_Witness ==
    /\ mixPc = "done"
    /\ Len(batches) = 2
    /\ \E b \in 1..2 : \E k \in 1..5 : ~added[b][k]
    /\ \A b \in 1..2 : Len(batches[b]) = 10

\* the ids referenced by the sections, one entry per reference
RECURSIVE ReferencedIds(_)
ReferencedIds(secs) ==
    IF secs = <<>> THEN <<>>
    ELSE [i \in 1..Len(Head(secs).items) |-> Head(secs).items[i].id]
         \o ReferencedIds(Tail(secs))

\* C19: with pairwise distinct candidate ids the sections reference each
\* candidate at most once and only candidates of the input, with the
\* candidate's type; exactly N mod 10 candidates are referenced by no
\* section.
C19_EachCandidateOnce ==
    mixPc = "done" =>
        \A refs \in {ReferencedIds(sections)} :
            /\ \A i, j \in 1..Len(refs) : refs[i] = refs[j] => i = j
            /\ \A k \in 1..Len(sections) : \A i \in 1..Len(sections[k].items) :
                  \E c \in 1..Len(mixInput) :
                      sections[k].items[i] = [id |-> mixInput[c].id, type |-> mixInput[c].type]
            /\ Cardinality({c \in 1..Len(mixInput) :
                               \A i \in 1..Len(refs) : refs[i] # mixInput[c].id})
                  = Len(mixInput) % 10

\* candidates left over after two batches filled under diversity conflicts
C19_Witness ==
    /\ mixPc = "done"
    /\ Len(mixInput) % 10 # 0
    /\ Len(batches) = 2
    /\ \E b \in 1..2 : \E k \in 1..10 : ~added[b][k]
    /\ Len(ReferencedIds(sections)) = 20

(***************************************************************************)
(* Claims about the Feed Store (SpecStore)                                 *)
(***************************************************************************)

Reverse(s) == [i \in 1..Len(s) |-> s[Len(s) + 1 - i]]

\* the entries of a retrieval result as a sorted set: member text -> score
ResultEntries(result) ==
    [m \in {JSONStringify(result[i].member) : i \in 1..Len(result)} |->
        LET i == CHOOSE i \in 1..Len(result) : JSONStringify(result[i].member) = m
        IN  result[i].score]

\* `result` lists, each once, the min(cap, k) highest-scored of the k
\* entries of `entries`, with their scores
IsTopOf(result, entries, cap) ==
    \A got \in {ResultEntries(result)} :
        /\ Len(result) = Min(cap, Cardinality(DOMAIN entries))
        /\ Cardinality(DOMAIN got) = Len(result)
        /\ DOMAIN got \subseteq DOMAIN entries
        /\ \A m \in DOMAIN got : got[m] = entries[m]
        /\ \A m \in DOMAIN got : \A d \in DOMAIN entries \ DOMAIN got :
              entries[d] <= got[m]

LimitsFrom(n) == {l \in (-1)..MaxLimit : l = -1 \/ l >= n}

RoundTrips(z, secs) ==
    \A limit \in LimitsFrom(Len(secs)) :
        LET result == getJustReadFeedSections(z, limit, NoCeiling)
        IN  [i \in 1..Len(result) |-> result[i].member] = Reverse(secs)

\* C5 as stated: a retrieval right after an append, without ceiling and with
\* a limit of at least the number of appended sections, returns exactly the
\* appended sections in reverse append order.
C5_RoundTrip ==
    op.kind = "append" => RoundTrips(store, op.sections)

\* C5 amended: the same, for an append of at most MAX_FEED_ITEMS sections to
\* a store that was empty.
C5_RoundTripOnEmptyStore ==
    [][ (op'.kind = "append" /\ op.kind = "none" /\ store = EmptyZSet
            /\ Len(op'.sections) <= MAX_FEED_ITEMS)
          => RoundTrips(store', op'.sections) ]_vars

\* two sections appended to an empty store, both kept
C5_Witness ==
    /\ op.kind = "append"
    /\ Len(op.sections) = 2
    /\ op.replies = <<2, 0, 0>>
    /\ Cardinality(DOMAIN store) = 2
    /\ RoundTrips(store, op.sections)

\* C6: a retrieval returns the min(limit, k) highest-scored of the k entries
\* whose score is strictly below the supplied ceiling (0 included), highest
\* first, or of all entries when no ceiling is supplied; the store is not
\* modified.
C6_RetrieveBelowCeiling ==
    [][ (op'.kind = "get" /\ op.kind = "none") =>
          LET below == IF op'.maxScore = NoCeiling THEN DOMAIN store
                       ELSE {m \in DOMAIN store : store[m] < op'.maxScore[1]}
              cap == IF op'.limit < 0 THEN Cardinality(below) ELSE op'.limit
          IN  /\ store' = store
              /\ IsTopOf(op'.result, ZRestrict(store, below), cap)
              /\ \A i, j \in 1..Len(op'.result) :
                    i < j => op'.result[i].score >= op'.result[j].score ]_vars

\* the payloads a call appends, and the rank-score the call gives the i-th
Payloads(secs) == {JSONStringify(secs[i]) : i \in 1..Len(secs)}
GivenScore(secs, nows, i) == nows[i] + (i - 1) + EXPIRY_MS

\* C15: rank-scores increase strictly in insertion order: within one append
\* call from each position to the next, and from every entry an earlier
\* call inserted to every entry of a later call, whatever the (never
\* decreasing) clock values of the calls.
C15_ScoresFollowInsertionOrder ==
    [][ (op'.kind = "append" /\ op.kind = "none") =>
          /\ \A i, j \in 1..Len(op'.sections) :
                i < j => GivenScore(op'.sections, op'.nows, i)
                           < GivenScore(op'.sections, op'.nows, j)
          /\ \A m \in DOMAIN store \ Payloads(op'.sections) :
                \A j \in 1..Len(op'.sections) :
                    store[m] < GivenScore(op'.sections, op'.nows, j) ]_vars

\* C16: right after an append whose expiry command read clock time T the
\* store holds no entry with a rank-score at or below T; an entry above T is
\* missing only if the trim removed it, MAX_FEED_ITEMS entries ranking above
\* it; and no other step removes or changes an entry.
C16_ExpiryOnAppend ==
    [][ IF op'.kind = "append" /\ op.kind = "none"
        THEN \A all \in {AfterZAdd(store, op'.sections, op'.nows)} :
             \A T \in {op'.nows[Len(op'.sections) + 1]} :
                 /\ \A m \in DOMAIN store' : store'[m] > T
                 /\ \A m \in DOMAIN store' : m \in DOMAIN all /\ store'[m] = all[m]
                 /\ \A m \in DOMAIN all \ DOMAIN store' :
                       \/ all[m] <= T
                       \/ Cardinality({d \in DOMAIN all : ZLess(all, m, d)})
                             >= MAX_FEED_ITEMS
        ELSE store' = store ]_vars

\* an append that found an entry whose rank-score equals the clock time and
\* removed it, keeping the entry one above
C16_Witness ==
    /\ op.kind = "append"
    /\ op.replies[3] > 0
    /\ clock = EXPIRY_MS
    /\ \E m \in DOMAIN everAppended \ Payloads(op.sections) :
          m \in DOMAIN store /\ store[m] = clock + 1

\* the pages a caller gets: the first with `ceiling`, each next one with the
\* rank-score of the last entry of the page before, up to the empty page
RECURSIVE PagesFrom(_, _, _)
PagesFrom(z, size, ceiling) ==
    LET page == getJustReadFeedSections(z, size, ceiling)
    IN  IF page = <<>> THEN <<>>
        ELSE page \o PagesFrom(z, size, Ceiling(page[Len(page)].score))

\* C17: for every page size of at least 1, paging through an unchanged store
\* yields every stored entry exactly once, in descending rank-score order.
C17_PaginationComplete ==
    op.kind = "none" =>
        \A size \in 1..MaxLimit :
            \A listed \in {PagesFrom(store, size, NoCeiling)} :
                /\ IsTopOf(listed, store, Cardinality(DOMAIN store))
                /\ \A i, j \in 1..Len(listed) :
                      i < j => listed[i].score >= listed[j].score

\* C20: the store never holds two entries with one payload; an append adds
\* an entry only for a payload that is not stored, gives a stored payload
\* the new rank-score, and does not grow the store when every payload is
\* already stored.
C20_NoDuplicatePayloads ==
    [][ (op'.kind = "append" /\ op.kind = "none") =>
          \A after \in {getJustReadFeedSections(store', -1, NoCeiling)} :
              /\ \A i, j \in 1..Len(after) :
                    after[i].member = after[j].member => i = j
              /\ op'.replies[1] = Cardinality(Payloads(op'.sections) \ DOMAIN store)
              /\ \A i \in 1..Len(after) : \A k \in 1..Len(op'.sections) :
                    after[i].member = op'.sections[k] =>
                        after[i].score = GivenScore(op'.sections, op'.nows, k)
              /\ Payloads(op'.sections) \subseteq DOMAIN store =>
                    Len(after) <= Cardinality(DOMAIN store) ]_vars

\* two stored sections appended again a millisecond later: nothing added,
\* both rank-scores replaced
C20_Witness ==
    /\ op.kind = "append"
    /\ Len(op.sections) = 2
    /\ op.replies = <<0, 0, 0>>
    /\ clock = 1
    /\ DOMAIN store = Payloads(op.sections)
    /\ \A k \in 1..2 : store[JSONStringify(op.sections[k])] = clock + (k - 1) + EXPIRY_MS

(***************************************************************************)
(* Claims about the Feed Store under concurrent callers (SpecPipe)         *)
(***************************************************************************)

\* C7: the add, trim and expire steps of an append take effect as one atomic
\* step with respect to every other append and every retrieval: no
\* retrieval is served between the add of a job and its trim, so no
\* retrieval observes more than MAX_FEED_ITEMS entries.
C7_NoRetrievalAboveCapacity ==
    observed.entries <= MAX_FEED_ITEMS

(***************************************************************************)
(* Claims about the job (SpecJob)                                          *)
(***************************************************************************)

\* the number of times `call` was made
TimesCalled(call) == Cardinality({k \in 1..Len(jobLog) : jobLog[k] = call})

\* C12: without an active user the job returns normally having called
\* neither the selector's sources nor the scorer nor the feed store; with
\* zero candidates after selection and ranking it returns normally without
\* an operation on the feed store.
C12_EarlyExits ==
    /\ jobFailed = {} => jobPc # "threw"
    /\ jobUser = "null" =>
          /\ jobPc = "returned"
          /\ jobLog = <<"findActiveUser">>
          /\ store = JobStoreBefore
    /\ (jobUser = "user" /\ jobCandidates = 0 /\ jobFailed = {}
          /\ jobPc \notin JobCalls) =>
          /\ jobPc \in {"rankCandidates", "rankedCandidates", "returned"}
          /\ TimesCalled("getScores") = 0
          /\ TimesCalled("pipeline.exec") = 0
          /\ store = JobStoreBefore

\* a run that found a user and no candidate, and returned
C12_Witness ==
    /\ jobPc = "returned"
    /\ jobUser = "user"
    /\ jobCandidates = 0
    /\ jobLog = <<"findActiveUser", "searchLibraryItems",
                  "findSubscriptionsByNames", "findUnseenPublicItems">>

\* C13: when a call to a collaborator fails the job fails with it: the
\* failed call is the last thing the job did and was made once, no scoring
\* is substituted, and the feed store is as it was before the run.
C13_FailurePropagates ==
    jobFailed # {} =>
        /\ jobPc = "threw"
        /\ jobFailed = {jobLog[Len(jobLog)]}
        /\ \A call \in JobCalls : TimesCalled(call) <= 1
        /\ TimesCalled("pipeline.exec") = 0
        /\ store = JobStoreBefore

\* the scoring call failed for more than 10 candidates
C13_Witness ==
    /\ jobFailed = {"getScores"}
    /\ jobPc = "threw"
    /\ jobCandidates > 10
    /\ store = JobStoreBefore

(***************************************************************************)
(* Claims about the feed stores of several users (SpecUsers)               *)
(***************************************************************************)

\* C14: under every interleaving of the commands of the users' jobs and
\* retrievals, the store of each user holds what that user's own appends
\* make of it, and a retrieval for a user returns what that user's store
\* alone gives.
C14_UsersPartitioned ==
    /\ \A u \in DOMAIN solo : redis[redisKey(u)] = solo[u]
    /\ DOMAIN solo # {} => observed.result = observed.solo

\* both users have entries, different ones, and a retrieval for one user
\* was served while the job of the other was between its commands
C14_Witness ==
    /\ DOMAIN solo = UserIds
    /\ \A u \in UserIds : solo[u] # EmptyZSet
    /\ \E u, v \in UserIds : solo[u] # solo[v]
    /\ observed.user \in UserIds
    /\ observed.result # <<>>
    /\ \E v \in UserIds \ {observed.user} : Len(pipelines[v]) \in {1, 2}

(***************************************************************************)
(* Claims about the Candidate Selector (SpecSelect)                        *)
(***************************************************************************)

PrivateCount == Cardinality({k \in 1..Len(selected) : selected[k].type = "library_item"})
PublicCount == Cardinality({k \in 1..Len(selected) : selected[k].type = "public_item"})

\* C2 as stated: selectCandidates never returns more than 30 public-origin
\* candidates; with 5 private and 50 public unseen items it returns 35.
C2_PublicNeverAbove30 ==
    selPc = "done" =>
        /\ PublicCount <= 30
        /\ (Len(libraryItems) = 5 /\ Len(publicItems) = 50 => Len(selected) = 35)

\* C2 amended: the public-origin candidates fill the vacancies the private
\* ones leave: there are min(q, 100 - privateCount) of them, at most 30 only
\* when 70 private candidates were taken; 5 private and 50 public give 55.
C2_PublicFillsVacancies ==
    selPc = "done" =>
        /\ PublicCount = Min(Len(publicItems), 100 - PrivateCount)
        /\ (PrivateCount = 70 => PublicCount <= 30)
        /\ (Len(libraryItems) = 5 /\ Len(publicItems) = 50 => Len(selected) = 55)

C2_Witness ==
    /\ selPc = "done"
    /\ Len(libraryItems) = 5
    /\ Len(publicItems) = 50
    /\ PrivateCount = 5
    /\ PublicCount = 50

\* C3: selectCandidates returns at most 70 private-origin candidates and at
\* most 100 candidates in all; the first min(70, p) private results come
\* first, in source order, followed by public results in source order.
C3_SelectorCapsAndOrder ==
    selPc = "done" =>
        LET np == Min(70, Len(libraryItems))
        IN  /\ PrivateCount <= 70
            /\ Len(selected) <= 100
            /\ Len(selected) >= np
            /\ \A k \in 1..np :
                  /\ selected[k].type = "library_item"
                  /\ selected[k].id = libraryItems[k].id
            /\ \A k \in 1..(Len(selected) - np) :
                  /\ k <= Len(publicItems)
                  /\ selected[np + k].type = "public_item"
                  /\ selected[np + k].id = publicItems[k].id

C3_Witness ==
    /\ selPc = "done"
    /\ Len(libraryItems) = 100
    /\ Len(publicItems) = 100
    /\ PrivateCount = 70
    /\ Len(selected) = 100

(***************************************************************************)
(* Claims about the Ranker (SpecRank)                                      *)
(***************************************************************************)

\* the number of positions of s holding x
Occurrences(s, x) == Cardinality({i \in 1..Len(s) : s[i] = x})

\* the merged score the claims speak of: the precomputed score if there is
\* one, otherwise the scorer's, otherwise zero
MergedScore(c) ==
    IF c.score # NoScore THEN c.score[1]
    ELSE IF c.id \in DOMAIN newScores THEN newScores[c.id]
    ELSE 0

C9_RankedIsSortedPermutation ==
    (rankPc = "done" /\ Len(rankInput) > 10) =>
        /\ Len(rankOutput) = Len(rankInput)
        /\ \A c \in Range(rankInput) \cup Range(rankOutput) :
              Occurrences(rankOutput, c) = Occurrences(rankInput, c)
        /\ \A i, j \in 1..Len(rankOutput) :
              i < j => MergedScore(rankOutput[i]) <= MergedScore(rankOutput[j])

\* precomputed, fresh and missing scores all occur and the order changed
C9_Witness ==
    /\ rankPc = "done"
    /\ Len(rankInput) > 10
    /\ rankOutput # rankInput
    /\ \E c \in Range(rankInput) : c.score # NoScore
    /\ \E c \in Range(rankInput) : c.score = NoScore /\ c.id \in DOMAIN newScores
    /\ \E c \in Range(rankInput) : c.score = NoScore /\ c.id \notin DOMAIN newScores

\* C10: when it ranks, rankCandidates issues exactly one scoring request,
\* keyed by exactly the ids of the candidates without a precomputed score.
C10_OneRequestForUnscored ==
    (rankPc \in {"getScores", "done"} /\ Len(rankInput) > 10) =>
        /\ Len(rankRequests) = 1
        /\ rankRequests[1] = {c.id : c \in {d \in Range(rankInput) : d.score = NoScore}}

C10_Witness ==
    /\ rankPc = "done"
    /\ Len(rankInput) > 10
    /\ Len(rankRequests) = 1
    /\ rankRequests[1] # {}
    /\ \E c \in Range(rankInput) : c.score # NoScore /\ c.id \notin rankRequests[1]

=============================================================================
